---- MODULE Spec2Model ----
(***************************************************************************)
(* Model of src/main.py: word_vector (the tokenizer) and similarity_check  *)
(* (load both CSV files, insert the document, save both files, rank the    *)
(* other documents by euclidean distance of their term frequencies).       *)
(*                                                                         *)
(* Encodings.  A Python str is a sequence of one-character strings.  A     *)
(* pandas cell of a string-valued column is a record [k, s]: k = "str"     *)
(* (the str s), k = "nan" (NaN), k = "num" (a number whose text is s).     *)
(* A count cell is a natural number, or NaN.  A DataFrame's rows are a    *)
(* bag: no property here reads the row order, which pd.merge(how="outer")  *)
(* chooses by sorting the join keys.  A distance is kept as the exact      *)
(* fraction of its square.                                                 *)
(*                                                                         *)
(* The pandas calls are modelled as pandas 1.x and 2.x behave: read_csv    *)
(* turns an empty field and the fields of its na_values into NaN and a     *)
(* column of numbers into a numeric column, pd.merge raises a ValueError   *)
(* for a numeric key column against a str one, fillna(0) fills every       *)
(* column, .at falls back to .loc on a frame whose index has a label       *)
(* twice.                                                                  *)
(*                                                                         *)
(* Spec: the calls of similarity_check made one after the other.  SpecWV:  *)
(* word_vector on every short string.  SpecConc: two processes that call   *)
(* similarity_check on the same files, one step per file access.           *)
(***************************************************************************)
EXTENDS Integers, Sequences, FiniteSets, Bags, TLC

VARIABLES
    word_vec_csv,   \* the file word_vec.csv: [exists, cols, rows]
    doc_by_id_csv,  \* the file doc_by_id.csv: [exists, rows]
    calls,          \* log of the similarity_check calls made: <<[text, saved]>>
    add_document,   \* the last call's add_document
    earlier_added,  \* every call before the last had add_document true
    outcome,        \* how the last call ended
    ls_distance,    \* the last call's ls_distance
    printed,        \* what the last call printed
    string,         \* word_vector's argument
    dic,            \* word_vector's dic
    wv_done,        \* word_vector has returned
    pc,             \* per process: the place in similarity_check
    loc,            \* per process: its local variables
    overlapped,     \* two calls were in progress at once
    stopped         \* a process stopped between the two writes

vars == <<word_vec_csv, doc_by_id_csv, calls, add_document, earlier_added,
          outcome, ls_distance, printed, string, dic, wv_done, pc, loc,
          overlapped, stopped>>

\* what a call reports
report == <<add_document, earlier_added, outcome, ls_distance, printed>>

----------------------------------------------------------------------------
(* Characters and strings *)

UpperCase == {"A", "C", "N"}
LowerCase == {"a", "c", "d", "g", "n", "o", "t"}
Digits == {"0", "7"}
\* \w: letters, digits and the underscore
WordChars == UpperCase \cup LowerCase \cup Digits \cup {"_"}
\* \s
WhiteSpace == {" "}

\* str.lower() on one character
LowerChar(c) ==
    CASE c = "A" -> "a"
      [] c = "C" -> "c"
      [] c = "N" -> "n"
      [] OTHER -> c

\* str.lower()
Lower(s) == [i \in 1..Len(s) |-> LowerChar(s[i])]

\* re.sub("\W+", " ", s): every maximal run of non-word characters becomes
\* one space
RECURSIVE ReSub(_)
ReSub(s) ==
    IF s = <<>> THEN <<>>
    ELSE IF Head(s) \in WordChars THEN <<Head(s)>> \o ReSub(Tail(s))
    ELSE IF Len(s) >= 2 /\ s[2] \notin WordChars THEN ReSub(Tail(s))
    ELSE <<" ">> \o ReSub(Tail(s))

\* re.split("\s+", s): the pieces between the maximal runs of whitespace; a
\* run at the start or at the end leaves an empty piece there
RECURSIVE ReSplitFrom(_, _)
ReSplitFrom(s, cur) ==
    IF s = <<>> THEN <<cur>>
    ELSE IF Head(s) \in WhiteSpace
         THEN IF Len(s) >= 2 /\ s[2] \in WhiteSpace
              THEN ReSplitFrom(Tail(s), cur)
              ELSE <<cur>> \o ReSplitFrom(Tail(s), <<>>)
    ELSE ReSplitFrom(Tail(s), Append(cur, Head(s)))

ReSplit(s) == ReSplitFrom(s, <<>>)

\* main.py line 40
LsWords(s) == ReSplit(Lower(ReSub(s)))

\* main.py lines 44-48: dic[word] = number of occurrences in ls_words
CountWords(ls_words) ==
    [w \in {ls_words[i] : i \in 1..Len(ls_words)} |->
        Cardinality({i \in 1..Len(ls_words) : ls_words[i] = w})]

\* word_vector(string), as the mapping word -> term frequency of its frame
word_vector(s) == CountWords(LsWords(s))

----------------------------------------------------------------------------
(* Bounds *)

\* similarity_check is called at most this many times
MaxCalls == 4
\* word_vector is tried on every string of at most this length
MaxLen == 4
\* at most this many calls in the interleaved runs
MaxConcCalls == 3

----------------------------------------------------------------------------
(* pandas values, read_csv and to_csv *)

StrV(s) == [k |-> "str", s |-> s]
NaNV == [k |-> "nan", s |-> <<>>]
NumV(s) == [k |-> "num", s |-> s]

\* the NaN of a count cell, which pd.merge leaves where a side has no row
NaN == -1

\* read_csv's default na_values, those the characters above can spell
NAValues ==
    { <<>>, <<"N", "A">>, <<"N", "/", "A">>, <<"n", "/", "a">>,
      <<"n", "a", "n">>, <<"N", "a", "N">>, <<"-", "n", "a", "n">> }

\* the fields read_csv converts to a number: digits, with at most one point
IsNumeric(f) ==
    /\ \E i \in 1..Len(f) : f[i] \in Digits
    /\ \A i \in 1..Len(f) : f[i] \in Digits \cup {"."}
    /\ Cardinality({i \in 1..Len(f) : f[i] = "."}) <= 1

\* read_csv's dtype inference for one column, given its fields: "numeric"
\* (int64, or float64 when a field is NA or has a point) when every field is
\* a number or NA, "object" otherwise and for a column without rows
ColDtype(fields) ==
    IF fields # {} /\ \A f \in fields : f \in NAValues \/ IsNumeric(f)
    THEN "numeric" ELSE "object"

ColIsFloat(fields) ==
    \E f \in fields : f \in NAValues \/ \E i \in 1..Len(f) : f[i] = "."

\* read_csv on one field of a column with these fields
ReadField(f, fields) ==
    IF f \in NAValues THEN NaNV
    ELSE IF ColDtype(fields) = "numeric"
         THEN IF ColIsFloat(fields) /\ \A i \in 1..Len(f) : f[i] # "."
              THEN NumV(f \o <<".", "0">>)
              ELSE NumV(f)
    ELSE StrV(f)

\* to_csv on one value: NaN is written as the empty field
WriteValue(v) == IF v.k = "nan" THEN <<>> ELSE v.s

\* str(n) and its inverse on the ids in use
IdRange == 0..(MaxCalls + 2)
ParseInt(s) == CHOOSE n \in IdRange : ToString(n) = s

\* sum of f over the finite set S
RECURSIVE SumOver(_, _)
SumOver(f, S) ==
    IF S = {} THEN 0
    ELSE LET x == CHOOSE x \in S : TRUE IN f[x] + SumOver(f, S \ {x})

\* the bag of f[x] for x in bag B
BagMap(f, B) ==
    [y \in {f[x] : x \in DOMAIN B} |->
        SumOver(B, {x \in DOMAIN B : f[x] = y})]

\* number of rows of a bag of rows
BagLen(B) == SumOver(B, DOMAIN B)

\* the files before the first call
AbsentWv == [exists |-> FALSE, cols |-> <<>>, rows |-> EmptyBag]
AbsentDoc == [exists |-> FALSE, rows |-> <<>>]

\* main.py lines 72-75: word_vec.csv is created with its header when absent
BootWv(f) ==
    IF f.exists THEN f
    ELSE [exists |-> TRUE, cols |-> <<"words">>, rows |-> EmptyBag]

\* main.py lines 76-79: doc_by_id.csv is created with its header when absent
BootDoc(f) == IF f.exists THEN f ELSE [exists |-> TRUE, rows |-> <<>>]

\* main.py line 82: the registry frame, with its RangeIndex 0..n-1
ReadDoc(f) ==
    LET texts == {f.rows[i].text : i \in 1..Len(f.rows)} IN
    [i \in 1..Len(f.rows) |->
        [index |-> i - 1,
         doc_id |-> ParseInt(f.rows[i].doc_id),
         text |-> ReadField(f.rows[i].text, texts)]]

\* main.py line 83: the term-document frame
ReadWv(f) ==
    LET words == {r.w : r \in DOMAIN f.rows}
        Rd(r) == [w |-> ReadField(r.w, words), c |-> r.c]
    IN [cols |-> f.cols, dtype |-> ColDtype(words),
        rows |-> BagMap([r \in DOMAIN f.rows |-> Rd(r)], f.rows)]

\* main.py line 101
WriteDoc(df) ==
    [exists |-> TRUE,
     rows |-> [i \in 1..Len(df) |->
                 [doc_id |-> ToString(df[i].doc_id),
                  text |-> WriteValue(df[i].text)]]]

\* main.py line 102
WriteWv(df) ==
    LET Wr(r) == [w |-> WriteValue(r.w), c |-> r.c]
    IN [exists |-> TRUE, cols |-> df.cols,
        rows |-> BagMap([r \in DOMAIN df.rows |-> Wr(r)], df.rows)]

----------------------------------------------------------------------------
(* similarity_check, lines 85-98: the document is inserted in memory *)

\* main.py line 87
DocId(df_word_vec) == Len(df_word_vec.cols)

\* variant of ConcatEntry: the result of pd.concat is not kept
ConcatEntryNotKept(df_whole_doc, doc_id, document_str) == df_whole_doc

\* main.py lines 89-90: pd.concat keeps each frame's index labels, and
\* new_entry is built with index=[0]
ConcatEntry(df_whole_doc, doc_id, document_str) ==
    Append(df_whole_doc,
           [index |-> 0, doc_id |-> doc_id, text |-> StrV(document_str)])

\* pd.merge refuses to join a numeric "words" column of the left frame with
\* the str "words" column of the right one (ValueError: You are trying to
\* merge on int64 and object columns); a side without rows is not looked at
MergeRaises(df_word_vec) ==
    df_word_vec.dtype = "numeric" /\ BagLen(df_word_vec.rows) > 0

\* main.py lines 92-96: the outer join on "words" with the new column named
\* name; a row without partner gets NaN in the other side's columns
Merge(df_word_vec, wvec, name) ==
    LET old == df_word_vec.rows
        JoinLeft(r) ==
            [w |-> r.w,
             c |-> Append(r.c, IF r.w.k = "str" /\ r.w.s \in DOMAIN wvec
                               THEN wvec[r.w.s] ELSE NaN)]
        rightOnly == {t \in DOMAIN wvec :
                        ~ \E r \in DOMAIN old : r.w = StrV(t)}
        NewRow(t) ==
            [w |-> StrV(t),
             c |-> Append([i \in 1..(Len(df_word_vec.cols) - 1) |-> NaN],
                          wvec[t])]
    IN [cols |-> Append(df_word_vec.cols, name),
        dtype |-> "object",
        rows |-> BagMap([r \in DOMAIN old |-> JoinLeft(r)], old)
                   (+) SetToBag({NewRow(t) : t \in rightOnly})]

\* main.py line 98: fillna(0) on every column, "words" included
FillNa(df) ==
    LET Fill(r) ==
            [w |-> IF r.w.k = "nan" THEN NumV(<<"0">>) ELSE r.w,
             c |-> [i \in 1..Len(r.c) |-> IF r.c[i] = NaN THEN 0 ELSE r.c[i]]]
    IN [df EXCEPT !.rows = BagMap([r \in DOMAIN df.rows |-> Fill(r)], df.rows)]

\* main.py lines 87-98 on the loaded frames
Insert(df_whole_doc, df_word_vec, document_str) ==
    LET doc_id == DocId(df_word_vec) IN
    [raises |-> MergeRaises(df_word_vec),
     doc_id |-> doc_id,
     df_whole_doc |-> ConcatEntry(df_whole_doc, doc_id, document_str),
     df_word_vec |->
        IF MergeRaises(df_word_vec) THEN df_word_vec
        ELSE FillNa(Merge(df_word_vec, word_vector(document_str),
                          ToString(doc_id)))]

----------------------------------------------------------------------------
(* similarity_check, lines 104-137: the ranking *)

\* the document columns of a frame, in order
DocCols(df) == SubSeq(df.cols, 2, Len(df.cols))

\* position in a row's cells of the column named name
CellOf(df, name) == (CHOOSE i \in 2..Len(df.cols) : df.cols[i] = name) - 1

\* df_word_vec[col].sum()
ColSum(df, j) == SumOver([r \in DOMAIN df.rows |-> df.rows[r] * r.c[j]],
                         DOMAIN df.rows)

\* variant of SqDistance: the counts are compared, not the frequencies
SqDistanceOfCounts(df, j, q) ==
    [num |-> SumOver([r \in DOMAIN df.rows |->
                        df.rows[r] * (r.c[j] - r.c[q]) * (r.c[j] - r.c[q])],
                     DOMAIN df.rows),
     den |-> 1]

\* main.py lines 113, 124: the square of the norm of the difference of the
\* two frequency columns, as the fraction num/den (den = 0: a column sums to
\* 0 and the norm is NaN)
SqDistance(df, j, q) ==
    LET sj == ColSum(df, j)
        sq == ColSum(df, q)
    IN [num |-> SumOver([r \in DOMAIN df.rows |->
                           df.rows[r] * (r.c[j] * sq - r.c[q] * sj)
                                      * (r.c[j] * sq - r.c[q] * sj)],
                        DOMAIN df.rows),
        den |-> sj * sj * sq * sq]

\* variant of Candidates: the search document's own column is compared too
CandidatesWithOwn(df, doc_id) == DocCols(df)

\* main.py line 121: the columns compared with the search document's
Candidates(df, doc_id) ==
    SelectSeq(DocCols(df), LAMBDA col : col # ToString(doc_id))

\* main.py lines 116-124; each distance is kept with the column it is of
LsDistance(df, doc_id) ==
    LET cand == Candidates(df, doc_id)
        q == CellOf(df, ToString(doc_id))
    IN [i \in 1..Len(cand) |->
          [col |-> cand[i], d |-> SqDistance(df, CellOf(df, cand[i]), q)]]

\* a < b on distances (false when either is NaN)
Less(a, b) == a.den > 0 /\ b.den > 0 /\ a.num * b.den < b.num * a.den

\* the keys 0..n-1 in the order sorted() gives them: stable, by distance
RECURSIVE SortedKeys(_, _)
SortedKeys(ls, n) ==
    IF n = 0 THEN <<>>
    ELSE LET prev == SortedKeys(ls, n - 1)
             k == n - 1
             after == {i \in 1..Len(prev) :
                         Less(ls[k + 1].d, ls[prev[i] + 1].d)}
             pos == IF after = {} THEN Len(prev) + 1
                    ELSE CHOOSE i \in after : \A j \in after : i <= j
         IN SubSeq(prev, 1, pos - 1) \o <<k>> \o SubSeq(prev, pos, Len(prev))

\* main.py line 127
SortLs(ls) == SortedKeys(ls, Len(ls))

\* df_whole_doc.at[key, "text"]: the text of every row whose index label is
\* key (one value when the label is unique)
AtText(df_whole_doc, key) ==
    LET hit == SelectSeq(df_whole_doc, LAMBDA row : row.index = key)
    IN [i \in 1..Len(hit) |-> hit[i].text]

\* how line 135 ends: KeyError without such a label; TypeError when "\"" is
\* added to a value that is no str (a Series skips its NaN and fails on a
\* number)
PrintError(texts) ==
    IF Len(texts) = 0 THEN "KeyError"
    ELSE IF Len(texts) = 1 /\ texts[1].k # "str" THEN "TypeError"
    ELSE IF Len(texts) >= 2 /\ \E i \in 1..Len(texts) : texts[i].k = "num"
         THEN "TypeError"
    ELSE "none"

\* main.py line 137: the loop stops after index 2
TopK == 3

\* main.py lines 130-137, add_document false: what is printed, and the error
\* that ends the loop if there is one
PrintLoop(df_whole_doc, ls, sort_ls) ==
    LET n == IF Len(sort_ls) < TopK THEN Len(sort_ls) ELSE TopK
        Texts(i) == AtText(df_whole_doc, sort_ls[i])
        bad == {i \in 1..n : PrintError(Texts(i)) # "none"}
        stop == IF bad = {} THEN n ELSE CHOOSE i \in bad : \A j \in bad : i <= j
    IN [printed |->
          [i \in 1..stop |->
             [rank |-> i,
              key |-> sort_ls[i],
              dist |-> ls[sort_ls[i] + 1].d,
              text_printed |-> i \notin bad,
              texts |-> IF i \in bad THEN <<>> ELSE Texts(i)]],
        outcome |-> IF bad = {} THEN "ranked" ELSE PrintError(Texts(stop))]

\* variant of Rank: line 105 tests doc_id == 0
RankTestsZero(df_whole_doc, df_word_vec, doc_id, add) ==
    IF doc_id = 0 /\ add = FALSE
    THEN [outcome |-> "insufficient", ls_distance |-> <<>>, printed |-> <<>>]
    ELSE LET ls == LsDistance(df_word_vec, doc_id)
             loop == PrintLoop(df_whole_doc, ls, SortLs(ls))
         IN IF add
            THEN [outcome |-> "added", ls_distance |-> ls, printed |-> <<>>]
            ELSE [outcome |-> loop.outcome, ls_distance |-> ls,
                  printed |-> loop.printed]

\* main.py lines 104-137
Rank(df_whole_doc, df_word_vec, doc_id, add) ==
    IF doc_id = 1 /\ add = FALSE
    THEN [outcome |-> "insufficient", ls_distance |-> <<>>, printed |-> <<>>]
    ELSE LET ls == LsDistance(df_word_vec, doc_id)
             loop == PrintLoop(df_whole_doc, ls, SortLs(ls))
         IN IF add
            THEN [outcome |-> "added", ls_distance |-> ls, printed |-> <<>>]
            ELSE [outcome |-> loop.outcome, ls_distance |-> ls,
                  printed |-> loop.printed]

----------------------------------------------------------------------------
(* Inputs *)

CatDog == <<"c", "a", "t", " ", "d", "o", "g">>
CatCat == <<"c", "a", "t", " ", "c", "a", "t">>
DogDog == <<"d", "o", "g", " ", "d", "o", "g">>
\* "Cat, cat!"
CatCatPunct == <<"C", "a", "t", ",", " ", "c", "a", "t", "!">>
\* "N/A"
NotAvailable == <<"N", "/", "A">>
\* "7"
Seven == <<"7">>

\* the documents similarity_check is called with
Documents == {CatDog, CatCat, DogDog, CatCatPunct, NotAvailable, Seven}

\* the documents of the interleaved runs
ConcDocuments == {CatDog, Seven}

\* the strings word_vector is called with
RECURSIVE StringsUpTo(_, _)
StringsUpTo(chars, n) ==
    IF n = 0 THEN {<<>>}
    ELSE LET shorter == StringsUpTo(chars, n - 1)
         IN shorter \cup {Append(s, c) : s \in shorter, c \in chars}

Strings == StringsUpTo({"a", "A", ",", " "}, MaxLen) \cup Documents

Procs == {1, 2}

NoFrame == [cols |-> <<>>, dtype |-> "object", rows |-> EmptyBag]
NoLoc == [document_str |-> <<>>, add_document |-> FALSE, call |-> 0,
          doc_id |-> 0, df_whole_doc |-> <<>>, df_word_vec |-> NoFrame]

----------------------------------------------------------------------------
(* The state machine *)

Init ==
    /\ word_vec_csv = AbsentWv
    /\ doc_by_id_csv = AbsentDoc
    /\ calls = <<>>
    /\ add_document = FALSE
    /\ earlier_added = TRUE
    /\ outcome = "none"
    /\ ls_distance = <<>>
    /\ printed = <<>>
    /\ string = <<>>
    /\ dic = <<>>
    /\ wv_done = FALSE
    /\ pc = [p \in Procs |-> "idle"]
    /\ loc = [p \in Procs |-> NoLoc]
    /\ overlapped = FALSE
    /\ stopped = FALSE

\* variant of Call: the files are written only when the call ends well
CallSavesLast(wvf, docf, document_str, add) ==
    LET wv0 == BootWv(wvf)
        doc0 == BootDoc(docf)
        ins == Insert(ReadDoc(doc0), ReadWv(wv0), document_str)
        res == Rank(ins.df_whole_doc, ins.df_word_vec, ins.doc_id, add)
    IN IF ins.raises
       THEN [wv |-> wv0, doc |-> doc0, saved |-> "no",
             outcome |-> "ValueError", ls_distance |-> <<>>, printed |-> <<>>]
       ELSE IF res.outcome \notin {"added", "ranked"}
       THEN [wv |-> wv0, doc |-> doc0, saved |-> "no",
             outcome |-> res.outcome, ls_distance |-> res.ls_distance,
             printed |-> res.printed]
       ELSE [wv |-> WriteWv(ins.df_word_vec),
             doc |-> WriteDoc(ins.df_whole_doc), saved |-> "both",
             outcome |-> res.outcome, ls_distance |-> res.ls_distance,
             printed |-> res.printed]

\* similarity_check(document_str, add) on the files wvf and docf (main.py
\* lines 71-137): the files it leaves and what it reports.  A ValueError of
\* pd.merge ends the call before line 101, an error of line 135 after it.
Call(wvf, docf, document_str, add) ==
    LET wv0 == BootWv(wvf)
        doc0 == BootDoc(docf)
        ins == Insert(ReadDoc(doc0), ReadWv(wv0), document_str)
        res == Rank(ins.df_whole_doc, ins.df_word_vec, ins.doc_id, add)
    IN IF ins.raises
       THEN [wv |-> wv0, doc |-> doc0, saved |-> "no",
             outcome |-> "ValueError", ls_distance |-> <<>>, printed |-> <<>>]
       ELSE [wv |-> WriteWv(ins.df_word_vec),
             doc |-> WriteDoc(ins.df_whole_doc), saved |-> "both",
             outcome |-> res.outcome, ls_distance |-> res.ls_distance,
             printed |-> res.printed]

\* whether every call that ended before the one ending now had add_document
\* true
PriorAdded == IF outcome = "none" THEN TRUE ELSE earlier_added /\ add_document

\* one whole call of similarity_check, alone
SimilarityCheck(document_str, add) ==
    /\ Len(calls) < MaxCalls
    /\ LET r == Call(word_vec_csv, doc_by_id_csv, document_str, add)
       IN /\ word_vec_csv' = r.wv
          /\ doc_by_id_csv' = r.doc
          /\ outcome' = r.outcome
          /\ ls_distance' = r.ls_distance
          /\ printed' = r.printed
          /\ calls' = Append(calls, [text |-> document_str, saved |-> r.saved])
    /\ add_document' = add
    /\ earlier_added' = PriorAdded
    /\ UNCHANGED <<string, dic, wv_done, pc, loc, overlapped, stopped>>

Next == \E d \in Documents, a \in BOOLEAN : SimilarityCheck(d, a)

Spec == Init /\ [][Next]_vars

----------------------------------------------------------------------------
(* word_vector alone, on every short string *)

InitWV ==
    /\ string \in Strings
    /\ word_vec_csv = AbsentWv
    /\ doc_by_id_csv = AbsentDoc
    /\ calls = <<>>
    /\ add_document = FALSE
    /\ earlier_added = TRUE
    /\ outcome = "none"
    /\ ls_distance = <<>>
    /\ printed = <<>>
    /\ dic = <<>>
    /\ wv_done = FALSE
    /\ pc = [p \in Procs |-> "idle"]
    /\ loc = [p \in Procs |-> NoLoc]
    /\ overlapped = FALSE
    /\ stopped = FALSE

\* main.py lines 36-50
WordVector ==
    /\ ~ wv_done
    /\ dic' = word_vector(string)
    /\ wv_done' = TRUE
    /\ UNCHANGED <<word_vec_csv, doc_by_id_csv, calls, report, string, pc,
                   loc, overlapped, stopped>>

NextWV == WordVector

SpecWV == InitWV /\ [][NextWV]_vars

----------------------------------------------------------------------------
(* Two processes calling similarity_check on the same files: one step per  *)
(* file access, the computation between two accesses joined to the access  *)
(* before it.  Nothing in main.py locks the files.                         *)

Busy(p) == pc[p] \notin {"idle", "stopped"}

UnchangedWV == UNCHANGED <<string, dic, wv_done>>

\* the call begins
Start(p, document_str, add) ==
    /\ pc[p] = "idle"
    /\ Len(calls) < MaxConcCalls
    /\ calls' = Append(calls, [text |-> document_str, saved |-> "no"])
    /\ loc' = [loc EXCEPT ![p] = [NoLoc EXCEPT !.document_str = document_str,
                                               !.add_document = add,
                                               !.call = Len(calls) + 1]]
    /\ pc' = [pc EXCEPT ![p] = "check_wv"]
    /\ overlapped' = (overlapped \/ \E q \in Procs \ {p} : Busy(q))
    /\ UNCHANGED <<word_vec_csv, doc_by_id_csv, report, stopped>>
    /\ UnchangedWV

\* main.py line 72
CheckWv(p) ==
    /\ pc[p] = "check_wv"
    /\ pc' = [pc EXCEPT ![p] = IF word_vec_csv.exists THEN "check_doc"
                               ELSE "create_wv"]
    /\ UNCHANGED <<word_vec_csv, doc_by_id_csv, calls, report, loc,
                   overlapped, stopped>>
    /\ UnchangedWV

\* main.py lines 73-75: open(..., 'w') truncates whatever is there
CreateWv(p) ==
    /\ pc[p] = "create_wv"
    /\ word_vec_csv' = BootWv(AbsentWv)
    /\ pc' = [pc EXCEPT ![p] = "check_doc"]
    /\ UNCHANGED <<doc_by_id_csv, calls, report, loc, overlapped, stopped>>
    /\ UnchangedWV

\* main.py line 76
CheckDoc(p) ==
    /\ pc[p] = "check_doc"
    /\ pc' = [pc EXCEPT ![p] = IF doc_by_id_csv.exists THEN "read_doc"
                               ELSE "create_doc"]
    /\ UNCHANGED <<word_vec_csv, doc_by_id_csv, calls, report, loc,
                   overlapped, stopped>>
    /\ UnchangedWV

\* main.py lines 77-79
CreateDoc(p) ==
    /\ pc[p] = "create_doc"
    /\ doc_by_id_csv' = BootDoc(AbsentDoc)
    /\ pc' = [pc EXCEPT ![p] = "read_doc"]
    /\ UNCHANGED <<word_vec_csv, calls, report, loc, overlapped, stopped>>
    /\ UnchangedWV

\* main.py line 82
LoadDoc(p) ==
    /\ pc[p] = "read_doc"
    /\ loc' = [loc EXCEPT ![p].df_whole_doc = ReadDoc(doc_by_id_csv)]
    /\ pc' = [pc EXCEPT ![p] = "read_wv"]
    /\ UNCHANGED <<word_vec_csv, doc_by_id_csv, calls, report, overlapped,
                   stopped>>
    /\ UnchangedWV

\* main.py lines 83-98; a ValueError of pd.merge ends the call
LoadWvAndInsert(p) ==
    /\ pc[p] = "read_wv"
    /\ LET ins == Insert(loc[p].df_whole_doc, ReadWv(word_vec_csv),
                         loc[p].document_str)
       IN IF ins.raises
          THEN /\ pc' = [pc EXCEPT ![p] = "idle"]
               /\ loc' = [loc EXCEPT ![p] = NoLoc]
               /\ add_document' = loc[p].add_document
               /\ earlier_added' = PriorAdded
               /\ outcome' = "ValueError"
               /\ ls_distance' = <<>>
               /\ printed' = <<>>
          ELSE /\ pc' = [pc EXCEPT ![p] = "save_doc"]
               /\ loc' = [loc EXCEPT ![p].doc_id = ins.doc_id,
                                     ![p].df_whole_doc = ins.df_whole_doc,
                                     ![p].df_word_vec = ins.df_word_vec]
               /\ UNCHANGED <<report>>
    /\ UNCHANGED <<word_vec_csv, doc_by_id_csv, calls, overlapped, stopped>>
    /\ UnchangedWV

\* main.py line 101
SaveDoc(p) ==
    /\ pc[p] = "save_doc"
    /\ doc_by_id_csv' = WriteDoc(loc[p].df_whole_doc)
    /\ calls' = [calls EXCEPT ![loc[p].call].saved = "doc"]
    /\ pc' = [pc EXCEPT ![p] = "save_wv"]
    /\ UNCHANGED <<word_vec_csv, report, loc, overlapped, stopped>>
    /\ UnchangedWV

\* main.py lines 102-137
SaveWvAndRank(p) ==
    /\ pc[p] = "save_wv"
    /\ word_vec_csv' = WriteWv(loc[p].df_word_vec)
    /\ calls' = [calls EXCEPT ![loc[p].call].saved = "both"]
    /\ LET res == Rank(loc[p].df_whole_doc, loc[p].df_word_vec, loc[p].doc_id,
                       loc[p].add_document)
       IN /\ outcome' = res.outcome
          /\ ls_distance' = res.ls_distance
          /\ printed' = res.printed
    /\ add_document' = loc[p].add_document
    /\ earlier_added' = PriorAdded
    /\ pc' = [pc EXCEPT ![p] = "idle"]
    /\ loc' = [loc EXCEPT ![p] = NoLoc]
    /\ UNCHANGED <<doc_by_id_csv, overlapped, stopped>>
    /\ UnchangedWV

\* the process is killed between line 101 and line 102
Stop(p) ==
    /\ pc[p] = "save_wv"
    /\ pc' = [pc EXCEPT ![p] = "stopped"]
    /\ loc' = [loc EXCEPT ![p] = NoLoc]
    /\ stopped' = TRUE
    /\ UNCHANGED <<word_vec_csv, doc_by_id_csv, calls, report, overlapped>>
    /\ UnchangedWV

NextConc ==
    \E p \in Procs :
        \/ \E d \in ConcDocuments, a \in BOOLEAN : Start(p, d, a)
        \/ CheckWv(p)
        \/ CreateWv(p)
        \/ CheckDoc(p)
        \/ CreateDoc(p)
        \/ LoadDoc(p)
        \/ LoadWvAndInsert(p)
        \/ SaveDoc(p)
        \/ SaveWvAndRank(p)
        \/ Stop(p)

SpecConc == Init /\ [][NextConc]_vars

----------------------------------------------------------------------------
(* What the properties speak of *)

\* the texts of the calls that wrote both files, in order
SavedTexts ==
    LET sv == SelectSeq(calls, LAMBDA c : c.saved = "both")
    IN [i \in 1..Len(sv) |-> sv[i].text]

\* "1", ..., "n"
Names(n) == [i \in 1..n |-> ToString(i)]

\* the document columns of word_vec.csv, and the doc_id column of
\* doc_by_id.csv
FileDocCols == DocCols(word_vec_csv)
FileDocIds ==
    [i \in 1..Len(doc_by_id_csv.rows) |-> doc_by_id_csv.rows[i].doc_id]

\* the texts of the calls made, in order
CallTexts == [i \in 1..Len(calls) |-> calls[i].text]

\* the columns of the distances of ls
ColsOf(ls) == [i \in 1..Len(ls) |-> ls[i].col]

\* the outcomes of a call that ends in an error condition after line 102
ErrorAfterSave == {"insufficient", "TypeError", "KeyError"}

\* the last call wrote both files
LastSaved == calls # <<>> /\ calls[Len(calls)].saved = "both"

\* the last call reached line 109
RankingComputed(o) == o \in {"added", "ranked", "TypeError", "KeyError"}

\* a = b and a <= b on distances
SameDist(a, b) == a.num * b.den = b.num * a.den
AtMost(a, b) == a.num * b.den <= b.num * a.den

\* the word tokens of s: its maximal runs of word characters, in lower case
RECURSIVE WordRunsFrom(_, _)
WordRunsFrom(s, cur) ==
    IF s = <<>> THEN (IF cur = <<>> THEN <<>> ELSE <<cur>>)
    ELSE IF Head(s) \in WordChars
         THEN WordRunsFrom(Tail(s), Append(cur, LowerChar(Head(s))))
    ELSE (IF cur = <<>> THEN <<>> ELSE <<cur>>) \o WordRunsFrom(Tail(s), <<>>)

WordRuns(s) == WordRunsFrom(s, <<>>)

----------------------------------------------------------------------------
(* Properties *)

\* C1: after N calls, from absent files, the matrix has the document columns
\* "1", ..., "N" in this order, and the registry has N rows with the doc_id
\* values 1, ..., N, each the name of the document's column.
\* Fails: a call that pd.merge ends with a ValueError (the "words" column was
\* read as numbers) inserts nothing.
C1_ColumnsAndIdsFollowCalls ==
    calls # <<>> =>
        /\ word_vec_csv.cols = <<"words">> \o Names(Len(calls))
        /\ FileDocIds = Names(Len(calls))

\* C2: after N insertions the term rows of word_vec.csv are exactly the union
\* of the token sets of the N inserted texts, one row per term, and every
\* cell is the count of the term in the document (0 when absent).
\* Fails: the "" term is read back as NaN and becomes the term 0.
C2_RowsAreUnionOfTokens ==
    LET rows == word_vec_csv.rows
        texts == SavedTexts
    IN /\ {r.w : r \in DOMAIN rows} =
              UNION {DOMAIN word_vector(texts[i]) : i \in 1..Len(texts)}
       /\ \A r \in DOMAIN rows : rows[r] = 1
       /\ \A r1, r2 \in DOMAIN rows : r1.w = r2.w => r1 = r2
       /\ \A r \in DOMAIN rows : \A i \in 1..Len(texts) :
              /\ i <= Len(r.c)
              /\ r.c[i] = IF r.w \in DOMAIN word_vector(texts[i])
                          THEN word_vector(texts[i])[r.w] ELSE 0

\* C3: word_vector returns exactly the lower-case word tokens of its input
\* with their numbers of occurrences: punctuation only separates ("Cat,
\* cat!" gives {cat: 2}).  Stated of the strings that have a word character.
\* Fails: punctuation at the start or the end leaves the token "".
C3_OnlyWordTokensCounted ==
    (wv_done /\ \E i \in 1..Len(string) : string[i] \in WordChars) =>
        dic = CountWords(WordRuns(string))

\* C4: a call with add_document false that leaves C >= 2 documents emits
\* min(3, C - 1) ranked results, by non-decreasing distance, equal distances
\* in column order.
\* Fails: line 135 raises a TypeError on a text that read_csv turned into NaN
\* and the later results are not emitted.
C4_TopThreeSortedStable ==
    (LastSaved /\ add_document = FALSE /\ Len(FileDocCols) >= 2) =>
        /\ Len(printed) = (IF Len(FileDocCols) - 1 < 3
                           THEN Len(FileDocCols) - 1 ELSE 3)
        /\ \A i, j \in 1..Len(printed) :
              i < j => /\ AtMost(printed[i].dist, printed[j].dist)
                       /\ SameDist(printed[i].dist, printed[j].dist)
                            => printed[i].key < printed[j].key

\* C5: in every call that computes ls_distance, the list has one entry for
\* each document column the file had before the call, in column order, and
\* none for the column str(doc_id) the call creates.
C5_CandidatesAreTheOtherColumns ==
    [][(calls' # calls /\ RankingComputed(outcome')) =>
          /\ ColsOf(ls_distance') = DocCols(BootWv(word_vec_csv))
          /\ \A i \in 1..Len(ls_distance') :
                ls_distance'[i].col
                    # ToString(Len(BootWv(word_vec_csv).cols))]_vars

C5_Witness ==
    outcome = "ranked" /\ Len(ls_distance) = 3 /\ Len(FileDocCols) = 4

\* C6: the call reports the insufficient corpus exactly when add_document is
\* false and the store held no document before the call; it then computes
\* and prints no ranking and does not raise.
C6_InsufficientIffFirstAndCompare ==
    [][calls' # calls =>
          /\ (outcome' = "insufficient") <=>
                (add_document' = FALSE /\ DocCols(BootWv(word_vec_csv)) = <<>>)
          /\ outcome' = "insufficient" =>
                ls_distance' = <<>> /\ printed' = <<>>]_vars

C6_Witness ==
    outcome = "insufficient" /\ Len(calls) = 1 /\ Len(FileDocCols) = 1

\* C7 as stated: when a call ends with the insufficient corpus or with a
\* failure of the ranking, the files are what they were before the call
\* (the header-only files of lines 72-79, if they were absent).
C7_ErrorLeavesFilesAlone ==
    [][(calls' # calls /\ outcome' \in ErrorAfterSave)
          => /\ word_vec_csv' = BootWv(word_vec_csv)
             /\ doc_by_id_csv' = BootDoc(doc_by_id_csv)]_vars

\* C7 amended: when a call ends with the insufficient corpus or with a
\* failure of the ranking, lines 101-102 have already written both files:
\* the matrix has the new column str(doc_id) and the registry the new row.
\* Only the ValueError of pd.merge, before line 101, leaves the files alone.
C7_ErrorComesAfterSave ==
    [][calls' # calls =>
          /\ outcome' \in ErrorAfterSave =>
                /\ calls'[Len(calls')].saved = "both"
                /\ word_vec_csv'.cols =
                      Append(BootWv(word_vec_csv).cols,
                             ToString(Len(BootWv(word_vec_csv).cols)))
                /\ Len(doc_by_id_csv'.rows) = Len(doc_by_id_csv.rows) + 1
                /\ doc_by_id_csv'.rows[Len(doc_by_id_csv'.rows)] =
                      [doc_id |-> ToString(Len(BootWv(word_vec_csv).cols)),
                       text |-> calls'[Len(calls')].text]
          /\ outcome' = "ValueError" =>
                /\ word_vec_csv' = BootWv(word_vec_csv)
                /\ doc_by_id_csv' = BootDoc(doc_by_id_csv)]_vars

C7_Witness ==
    outcome = "insufficient" /\ LastSaved /\ Len(doc_by_id_csv.rows) = 1

\* C8: after "cat dog", "cat cat", "dog dog" with add_document true and then
\* "cat dog" with add_document false, the query is the 4th column and the
\* ranking is:
\* document 1 at distance 0, then document 2 and document 3, in this order,
\* both at squared distance 1/2.
C8_Scenario ==
    (CallTexts = <<CatDog, CatCat, DogDog, CatDog>>
        /\ earlier_added /\ add_document = FALSE) =>
        /\ word_vec_csv.cols = <<"words", "1", "2", "3", "4">>
        /\ outcome = "ranked"
        /\ ColsOf(ls_distance) = <<"1", "2", "3">>
        /\ [i \in 1..Len(printed) |-> printed[i].key] = <<0, 1, 2>>
        /\ printed[1].dist.num = 0 /\ printed[1].dist.den > 0
        /\ 2 * printed[2].dist.num = printed[2].dist.den
        /\ 2 * printed[3].dist.num = printed[3].dist.den
        /\ printed[2].dist.den > 0 /\ printed[3].dist.den > 0

C8_Witness ==
    /\ CallTexts = <<CatDog, CatCat, DogDog, CatDog>>
    /\ earlier_added /\ add_document = FALSE
    /\ Len(printed) = 3

\* C9: the text printed for a ranked candidate is the one text of the
\* document whose column gave the distance (key k: the (k+1)-th inserted
\* document), never with the query's own text.
\* Fails: new_entry has the index label 0, as the first document has, so
\* key 0 prints both texts.
C9_PrintedTextIsTheCandidates ==
    \A i \in 1..Len(printed) :
        printed[i].text_printed =>
            /\ ls_distance[printed[i].key + 1].col
                   = ToString(printed[i].key + 1)
            /\ printed[i].texts = <<StrV(SavedTexts[printed[i].key + 1])>>

\* no call is in progress
Quiescent == \A p \in Procs : ~ Busy(p)

\* number of calls that got as far as st
CountSaved(st) == Len(SelectSeq(calls, LAMBDA c : c.saved \in st))

\* the corruptions of C10
DuplicateDocId ==
    \E i, j \in 1..Len(FileDocIds) : i # j /\ FileDocIds[i] = FileDocIds[j]
RowsAndColumnsDiffer == Len(doc_by_id_csv.rows) # Len(FileDocCols)
ColumnLost == Len(FileDocCols) < CountSaved({"both"})
RowLost == Len(doc_by_id_csv.rows) < CountSaved({"doc", "both"})
Corrupted == DuplicateDocId \/ RowsAndColumnsDiffer \/ ColumnLost \/ RowLost

\* C10: calls made one after the other, none stopped, never leave a
\* corrupted store (a lost column or row, a doc_id twice, or as many rows as
\* columns no more); a call stopped between line 101 and line 102 leaves a
\* row without column; interleaved calls can reach a corrupted store (the
\* witness).
C10_SequentialUseKeepsStoreSound ==
    (Quiescent /\ ~ overlapped) =>
        /\ ~ stopped => ~ Corrupted
        /\ stopped => RowsAndColumnsDiffer /\ ~ ColumnLost /\ ~ RowLost

C10_Witness ==
    /\ Quiescent /\ overlapped /\ ~ stopped
    /\ DuplicateDocId /\ RowsAndColumnsDiffer /\ ColumnLost

----------------------------------------------------------------------------
(* What does hold of the parts that fail as stated (under Spec) *)

\* The numbering of C1 holds of the calls that reach lines 101-102.
SavedCallsAreNumbered ==
    calls # <<>> =>
        /\ word_vec_csv.cols = <<"words">> \o Names(CountSaved({"both"}))
        /\ FileDocIds = Names(CountSaved({"both"}))

\* The ranking of C4 holds of the calls that line 135 does not end.
RankedOutputIsTopThree ==
    outcome = "ranked" =>
        /\ Len(printed) = (IF Len(FileDocCols) - 1 < TopK
                           THEN Len(FileDocCols) - 1 ELSE TopK)
        /\ \A i, j \in 1..Len(printed) :
              i < j => /\ AtMost(printed[i].dist, printed[j].dist)
                       /\ SameDist(printed[i].dist, printed[j].dist)
                            => printed[i].key < printed[j].key

====
